---- MODULE Spec2Model ----
(***************************************************************************)
(* A model of src/one-time-mail.py (class EmailAutomation): the transport  *)
(* retry loop, the message poller, the body normalizer, the link and code  *)
(* extractors and the orchestrating run().                                 *)
(*                                                                         *)
(* Text is modelled at character level.  A Python str is a sequence of     *)
(* characters; an ASCII character is the one-character string holding it   *)
(* and a Cyrillic letter is named by its transliteration ("cy_k" is the    *)
(* lower-case letter ka, "CY_K" its upper case).  Python's None is         *)
(* the record NoneVal, an Optional[str] holding s is Some(s).              *)
(***************************************************************************)
EXTENDS Integers, Sequences, FiniteSets, TLC

--------------------------------------------------------------------------
(* Bounds of the model and constants of the program *)

\* largest max_attempts handed to poll_for_messages (the default is 360)
MaxAttempts == 2
max_retries == 3
retry_delay == 2
poll_interval == 5

--------------------------------------------------------------------------
(* Characters and the classes the regular expressions use *)

Digits == {"0", "1", "2", "3", "4", "5", "6", "7", "8", "9"}

UpperChars ==
  <<"A", "B", "C", "D", "E", "F", "G", "H", "I", "J", "K", "L", "M",
    "N", "O", "P", "Q", "R", "S", "T", "U", "V", "W", "X", "Y", "Z",
    "CY_K", "CY_O", "CY_D">>

LowerChars ==
  <<"a", "b", "c", "d", "e", "f", "g", "h", "i", "j", "k", "l", "m",
    "n", "o", "p", "q", "r", "s", "t", "u", "v", "w", "x", "y", "z",
    "cy_k", "cy_o", "cy_d">>

AsciiUpper == {UpperChars[i] : i \in 1..26}
AsciiLower == {LowerChars[i] : i \in 1..26}

CyrillicChars ==
  {"cy_k", "cy_o", "cy_d", "cy_p", "cy_t", "cy_v", "cy_e", "cy_r", "cy_zh",
   "cy_n", "cy_i", "cy_ya", "cy_f", "cy_a", "cy_ts", "cy_l",
   "CY_K", "CY_O", "CY_D"}

\* [A-Za-z0-9]
AlnumChars == Digits \cup AsciiUpper \cup AsciiLower
\* [A-Za-z0-9\-]
AlnumHyphenChars == AlnumChars \cup {"-"}
\* \w of a str pattern: Unicode letters, digits and the underscore
WordChars == AlnumChars \cup CyrillicChars \cup {"_"}
\* \s
SpaceChars == {" ", "\n", "\t"}

\* the other characters of the alphabet
OtherChars ==
  {":", "-", "_", "<", ">", "/", "\"", "=", "?", "&", ";", "#", ".", ",",
   "{", "}", "@", "%", "!", "'", "(", ")", "+", "*"}

Alphabet ==
  Digits \cup AsciiUpper \cup AsciiLower \cup CyrillicChars
    \cup SpaceChars \cup OtherChars

\* case folding of re.IGNORECASE
FoldMap ==
  [c \in Alphabet |->
     IF \E i \in 1..Len(UpperChars) : UpperChars[i] = c
     THEN LowerChars[CHOOSE i \in 1..Len(UpperChars) : UpperChars[i] = c]
     ELSE c]
Fold(c) == FoldMap[c]

Min(S) == CHOOSE x \in S : \A y \in S : x <= y
Max(S) == CHOOSE x \in S : \A y \in S : x >= y
MinOr(S, d) == IF S = {} THEN d ELSE Min(S)
MaxOr(S, d) == IF S = {} THEN d ELSE Max(S)

\* the first value of f, in the order of its domain, that is not none;
\* none when there is no such value
FirstOf(f, none) ==
  LET ok == {x \in DOMAIN f : f[x] # none}
  IN IF ok = {} THEN none ELSE f[Min(ok)]

\* Offsets count the characters before a position: offset i lies between
\* s[i] and s[i+1].

\* the literal lit occurs in s at offset i (case-sensitive)
OccursAt(s, lit, i) ==
  /\ i + Len(lit) <= Len(s)
  /\ \A k \in 1..Len(lit) : s[i + k] = lit[k]

\* least offset >= from at which lit occurs in s, or -1
IndexOf(s, lit, from) ==
  MinOr({i \in from..(Len(s) - Len(lit)) : OccursAt(s, lit, i)}, -1)

\* length of the longest run of characters of class cls starting at offset i
RunLen(s, i, cls) ==
  Max({n \in 0..(Len(s) - i) : \A k \in 1..n : s[i + k] \in cls})

\* length of the longest run of characters of class cls ending at offset i
RunLenBefore(s, i, cls) ==
  Max({n \in 0..i : \A k \in 1..n : s[i - k + 1] \in cls})

\* \b at offset i
WordBoundary(s, i) ==
  LET before == i >= 1 /\ s[i] \in WordChars
      after == i < Len(s) /\ s[i + 1] \in WordChars
  IN before # after

Suffix(s, i) == SubSeq(s, i + 1, Len(s))
Prefix(s, i) == SubSeq(s, 1, i)

--------------------------------------------------------------------------
(* Optional values *)

NoneVal == [some |-> FALSE, val |-> <<>>]
Some(v) == [some |-> TRUE, val |-> v]
\* Python truthiness of an Optional[str]
Truthy(o) == o.some /\ o.val # <<>>

--------------------------------------------------------------------------
(* _clean_html: the body normalizer *)

StyleOpen == <<"<", "s", "t", "y", "l", "e">>
StyleClose == <<"<", "/", "s", "t", "y", "l", "e", ">">>
StyleAttr == <<"s", "t", "y", "l", "e", "=", "\"">>

\* offset just after the first occurrence of lit at or after offset from;
\* -1 when there is none, or when from is -1 already
EndOf(s, lit, from) ==
  IF from < 0 \/ IndexOf(s, lit, from) < 0
  THEN -1
  ELSE IndexOf(s, lit, from) + Len(lit)

\* re.sub(r'<style[^>]*>.*?</style>', '', body_html, flags=re.DOTALL):
\* the pattern is matched case-sensitively; [^>]* ends at the first '>' and
\* the lazy .*? at the first '</style>' after it.  The block opens at
\* offset i and ends at offset e.
RECURSIVE RemoveStyleBlocks(_)
CutStyleBlock(s, i, e) ==
  IF e < 0 THEN s ELSE Prefix(s, i) \o RemoveStyleBlocks(Suffix(s, e))

RemoveStyleBlocks(s) ==
  CutStyleBlock(s, IndexOf(s, StyleOpen, 0),
                EndOf(s, StyleClose, EndOf(s, <<">">>, EndOf(s, StyleOpen, 0))))

\* re.sub(r'\s*style="[^"]*"', '', body_html): the attribute opens at
\* offset p, after a run of spaces, and ends at offset e
RECURSIVE RemoveStyleAttrs(_)
CutStyleAttr(s, p, e) ==
  IF e < 0 THEN s
  ELSE Prefix(s, p - RunLenBefore(s, p, SpaceChars))
         \o RemoveStyleAttrs(Suffix(s, e))

RemoveStyleAttrs(s) ==
  CutStyleAttr(s, IndexOf(s, StyleAttr, 0),
               EndOf(s, <<"\"">>, EndOf(s, StyleAttr, 0)))

\* re.sub(r'<[^>]+>', ' ', body_html): the offset at which the tag opening
\* at offset i ends, -1 when '<' opens no tag there
TagEnd(s, i) ==
  IF i >= 0 /\ i + 2 <= Len(s) /\ s[i + 2] # ">"
  THEN EndOf(s, <<">">>, i + 2)
  ELSE -1

RECURSIVE RemoveTags(_)
CutTag(s, i, e) ==
  IF i < 0 THEN s
  ELSE IF e < 0 THEN Prefix(s, i + 1) \o RemoveTags(Suffix(s, i + 1))
  ELSE Prefix(s, i) \o <<" ">> \o RemoveTags(Suffix(s, e))

RemoveTags(s) ==
  CutTag(s, IndexOf(s, <<"<">>, 0), TagEnd(s, IndexOf(s, <<"<">>, 0)))

\* html.unescape.  The named references of the character alphabet: each
\* pair is a key of html.entities.html5 (without the '&') and its value.
Html5 ==
  {<<<<"l", "t", ";">>, "<">>, <<<<"g", "t", ";">>, ">">>, <<<<"a", "m", "p", ";">>, "&">>, <<<<"q", "u", "o", "t", ";">>, "\"">>,
   <<<<"l", "t">>, "<">>, <<<<"g", "t">>, ">">>, <<<<"a", "m", "p">>, "&">>, <<<<"q", "u", "o", "t">>, "\"">>}

InHtml5(name) == \E e \in Html5 : e[1] = name
Html5Value(name) == (CHOOSE e \in Html5 : e[1] = name)[2]

\* the characters that end the name of a reference: [^\t\n\f <&#;]
RefStopChars == {"\t", "\n", " ", "<", "&", "#", ";"}
RefMaxLen == 32

\* html._replace_charref for a named reference: the reference itself when
\* it is a key of html5, else its longest prefix that is one (cut is the
\* length of that prefix, 0 when there is none)
ReplaceCut(ref, cut) ==
  IF InHtml5(ref) THEN <<Html5Value(ref)>>
  ELSE IF cut > 0 THEN <<Html5Value(Prefix(ref, cut))>> \o Suffix(ref, cut)
  ELSE <<"&">> \o ref

ReplaceCharref(ref) ==
  ReplaceCut(ref, MaxOr({x \in 2..(Len(ref) - 1) : InHtml5(Prefix(ref, x))}, 0))

\* html.unescape: _charref.sub(_replace_charref, s), the pattern being
\* &([^\t\n\f <&#;]{1,32};?) on this alphabet.  NameLen is the length of
\* the name after the '&' at offset i, RefLen that of the reference with
\* its ';'.
NameLen(s, i) ==
  Max({n \in 0..(Len(s) - i - 1) :
         n <= RefMaxLen /\ \A k \in 1..n : s[i + 1 + k] \notin RefStopChars})

RefLen(s, i, n) ==
  IF i + 1 + n < Len(s) /\ s[i + 2 + n] = ";" THEN n + 1 ELSE n

RECURSIVE Unescape(_)
UnescapeRef(s, i, n) ==
  IF n = 0 THEN Prefix(s, i + 1) \o Unescape(Suffix(s, i + 1))
  ELSE Prefix(s, i) \o ReplaceCharref(SubSeq(s, i + 2, i + 1 + RefLen(s, i, n)))
         \o Unescape(Suffix(s, i + 1 + RefLen(s, i, n)))

UnescapeAt(s, i) == IF i < 0 THEN s ELSE UnescapeRef(s, i, NameLen(s, i))

Unescape(s) == UnescapeAt(s, IndexOf(s, <<"&">>, 0))

\* every two whitespace characters in a row replaced by one space
RECURSIVE SqueezePairs(_)
SqueezePairs(s) ==
  IF s = <<>> THEN <<>>
  ELSE IF Len(s) >= 2 /\ s[1] \in SpaceChars /\ s[2] \in SpaceChars
  THEN <<" ">> \o SqueezePairs(Suffix(s, 2))
  ELSE <<s[1]>> \o SqueezePairs(Suffix(s, 1))

\* re.sub(r'\s+', ' ', clean_text)
RECURSIVE CollapseSpaces(_)
CollapseSpaces(s) ==
  IF s = <<>> THEN <<>>
  ELSE IF s[1] \in SpaceChars
  THEN <<" ">> \o CollapseSpaces(Suffix(s, RunLen(s, 0, SpaceChars)))
  ELSE <<s[1]>> \o CollapseSpaces(Suffix(s, 1))

\* str.strip()
Strip(s) ==
  LET a == RunLen(s, 0, SpaceChars)
      b == RunLenBefore(s, Len(s), SpaceChars)
  IN IF a = Len(s) THEN <<>> ELSE SubSeq(s, a + 1, Len(s) - b)

_clean_html(html) ==
  IF html = <<>> THEN <<>>
  ELSE Strip(CollapseSpaces(Unescape(RemoveTags(
         RemoveStyleAttrs(RemoveStyleBlocks(html))))))

--------------------------------------------------------------------------
(* extract_confirmation_code: the context patterns *)

\* In a trigger, WS stands for \s*; every other element is a literal
\* character, written in lower case (the patterns are searched with
\* re.IGNORECASE).
WS == "\\s*"

\* (?:...|...) of context_patterns[0..2], alternatives in source order
FullTriggers ==
  <<<<"cy_k", "cy_o", "cy_d", " ", "cy_p", "cy_o", "cy_d", "cy_t", "cy_v", "cy_e", "cy_r", "cy_zh", "cy_d", "cy_e", "cy_n", "cy_i", "cy_ya">>,
    <<"c", "o", "n", "f", "i", "r", "m", "a", "t", "i", "o", "n", " ", "c", "o", "d", "e">>,
    <<"v", "e", "r", "i", "f", "y", " ", "c", "o", "d", "e">>,
    <<"v", "e", "r", "i", "f", "i", "c", "a", "t", "i", "o", "n", " ", "c", "o", "d", "e">>,
    <<"a", "u", "t", "h", " ", "c", "o", "d", "e">>,
    <<"a", "u", "t", "h", "e", "n", "t", "i", "c", "a", "t", "i", "o", "n", " ", "c", "o", "d", "e">>,
    <<"y", "o", "u", "r", " ", "c", "o", "d", "e">>,
    <<"cy_k", "cy_o", "cy_d", " ", "cy_v", "cy_e", "cy_r", "cy_i", "cy_f", "cy_i", "cy_k", "cy_a", "cy_ts", "cy_i", "cy_i">>,
    <<"cy_k", "cy_o", "cy_d", " ", "cy_d", "cy_l", "cy_ya", " ", "cy_p", "cy_o", "cy_d", "cy_t", "cy_v", "cy_e", "cy_r", "cy_zh", "cy_d", "cy_e", "cy_n", "cy_i", "cy_ya">>,
    <<"cy_k", "cy_o", "cy_d", " ", "cy_a", "cy_k", "cy_t", "cy_i", "cy_v", "cy_a", "cy_ts", "cy_i", "cy_i">>>>

\* (?:code|...) of context_patterns[3..4]
ShortTriggers ==
  <<<<"c", "o", "d", "e">>,
    <<"cy_k", "cy_o", "cy_d">>>>

\* (?:your\s*code\s*is|here\s*is\s*your\s*code|use\s*this\s*code) of
\* context_patterns[5..6]
PhraseTriggers ==
  <<<<"y", "o", "u", "r", WS, "c", "o", "d", "e", WS, "i", "s">>,
    <<"h", "e", "r", "e", WS, "i", "s", WS, "y", "o", "u", "r", WS, "c", "o", "d", "e">>,
    <<"u", "s", "e", WS, "t", "h", "i", "s", WS, "c", "o", "d", "e">>>>

\* the capture groups: (\b\d{4,8}\b), ([A-Za-z0-9]{6,12}\b) and
\* ([A-Za-z0-9\-]{6,16}\b)
NumericCapture == [cls |-> Digits, lo |-> 4, hi |-> 8, lead |-> TRUE]
AlnumCapture == [cls |-> AlnumChars, lo |-> 6, hi |-> 12, lead |-> FALSE]
HyphenCapture == [cls |-> AlnumHyphenChars, lo |-> 6, hi |-> 16, lead |-> FALSE]

\* the patterns listed capture by capture instead of class by class
CaptureMajorPatterns ==
  <<[trig |-> FullTriggers, cap |-> NumericCapture],
    [trig |-> ShortTriggers, cap |-> NumericCapture],
    [trig |-> PhraseTriggers, cap |-> NumericCapture],
    [trig |-> FullTriggers, cap |-> AlnumCapture],
    [trig |-> ShortTriggers, cap |-> AlnumCapture],
    [trig |-> PhraseTriggers, cap |-> AlnumCapture],
    [trig |-> FullTriggers, cap |-> HyphenCapture]>>

context_patterns ==
  <<[trig |-> FullTriggers, cap |-> NumericCapture],
    [trig |-> FullTriggers, cap |-> AlnumCapture],
    [trig |-> FullTriggers, cap |-> HyphenCapture],
    [trig |-> ShortTriggers, cap |-> NumericCapture],
    [trig |-> ShortTriggers, cap |-> AlnumCapture],
    [trig |-> PhraseTriggers, cap |-> NumericCapture],
    [trig |-> PhraseTriggers, cap |-> AlnumCapture]>>

\* offset at which trigger t, matched from its element k on at offset i of
\* s, ends; -1 when it does not match.  \s* is followed by a literal that
\* is no space, so it takes the whole run of spaces.
RECURSIVE MatchTrigger(_, _, _, _)
MatchTrigger(s, i, t, k) ==
  IF k > Len(t) THEN i
  ELSE IF t[k] = WS
  THEN MatchTrigger(s, i + RunLen(s, i, SpaceChars), t, k + 1)
  ELSE IF i < Len(s) /\ Fold(s[i + 1]) = t[k]
  THEN MatchTrigger(s, i + 1, t, k + 1)
  ELSE -1

\* length captured by the group cap at offset c of s, 0 when it fails there:
\* the quantifier is greedy, so the longest admissible run is taken
CaptureLen(s, c, cap) ==
  IF cap.lead => WordBoundary(s, c)
  THEN MaxOr({n \in cap.lo..cap.hi :
                n <= RunLen(s, c, cap.cls) /\ WordBoundary(s, c + n)}, 0)
  ELSE 0

NoMatch == [at |-> -1, n |-> 0]

\* the group matched at offset c with n characters; NoMatch when n = 0
Captured(c, n) == IF n > 0 THEN [at |-> c, n |-> n] ELSE NoMatch

\* [:\-]?\s*(group) at offset q: the separator is taken when it is there,
\* and given back when the group then fails
CaptureAfterSpaces(s, q, cap) ==
  FirstOf(<<IF q < Len(s) /\ s[q + 1] \in {":", "-"}
            THEN Captured(q + 1 + RunLen(s, q + 1, SpaceChars),
                          CaptureLen(s, q + 1 + RunLen(s, q + 1, SpaceChars), cap))
            ELSE NoMatch,
            Captured(q, CaptureLen(s, q, cap))>>, NoMatch)

\* \s*[:\-]?\s*(group) from offset e on, e being where the trigger ended;
\* NoMatch when the trigger did not match (e = -1)
CaptureAfter(s, e, cap) ==
  IF e < 0 THEN NoMatch
  ELSE CaptureAfterSpaces(s, e + RunLen(s, e, SpaceChars), cap)

\* the pattern matched at offset i: the first alternative of the trigger
\* group, in order, after which the rest of the pattern matches
MatchAt(s, i, pattern) ==
  FirstOf([k \in 1..Len(pattern.trig) |->
             CaptureAfter(s, MatchTrigger(s, i, pattern.trig[k], 1), pattern.cap)],
          NoMatch)

\* match.group(1) of a match m, None when there is no match
Group1(s, m) ==
  IF m = NoMatch THEN NoneVal ELSE Some(SubSeq(s, m.at + 1, m.at + m.n))

\* re.search(pattern, s, re.IGNORECASE) and match.group(1): the leftmost
\* match; None when there is no match
SearchGroup1(pattern, s) ==
  Group1(s, FirstOf([i \in 0..Len(s) |-> MatchAt(s, i, pattern)], NoMatch))

\* the context patterns tried from the last to the first
LastContextMatch(s) ==
  FirstOf([k \in 1..Len(context_patterns) |->
             SearchGroup1(context_patterns[Len(context_patterns) + 1 - k], s)],
          NoneVal)

\* for pattern in context_patterns: ... return match.group(1)
FirstContextMatch(s) ==
  FirstOf([k \in 1..Len(context_patterns) |->
             SearchGroup1(context_patterns[k], s)], NoneVal)

--------------------------------------------------------------------------
(* extract_confirmation_code: the fallback pattern and the two stages *)

\* A pattern is held as its text.  The constructor's default code_pattern,
\* and the same pattern without its look-behind.
default_code_pattern == "\\b\\d{4,8}\\b(?<!margin|padding|width|height)"
bare_code_pattern == "\\b\\d{4,8}\\b"

\* the alternatives of the look-behind (?<!...) of a code pattern
Lookbehind(cp) ==
  IF cp = default_code_pattern
  THEN <<<<"m", "a", "r", "g", "i", "n">>,
         <<"p", "a", "d", "d", "i", "n", "g">>,
         <<"w", "i", "d", "t", "h">>,
         <<"h", "e", "i", "g", "h", "t">>>>
  ELSE <<>>

\* a regex engine that compiles a look-behind of any width
CompilesAnyWidth(cp) == FALSE

\* re.compile raises re.error ("look-behind requires fixed-width pattern")
\* when the alternatives of a look-behind differ in width
CompileFails(cp) ==
  LET lb == Lookbehind(cp)
  IN \E a, b \in 1..Len(lb) : Len(lb[a]) # Len(lb[b])

\* the look-behind of cp does not hold at offset e of s: none of its
\* alternatives ends there
NotBehind(cp, s, e) ==
  \A a \in 1..Len(Lookbehind(cp)) :
     ~(/\ e >= Len(Lookbehind(cp)[a])
       /\ OccursAt(s, Lookbehind(cp)[a], e - Len(Lookbehind(cp)[a])))

\* the code pattern matched at offset i of s, n being the length of the
\* run \b\d{4,8}\b takes there: NoMatch when it does not match
CodePatternMatch(cp, s, i, n) ==
  IF n > 0 /\ NotBehind(cp, s, i + n) THEN Captured(i, n) ELSE NoMatch

CodePatternAt(cp, s, i) ==
  CodePatternMatch(cp, s, i, CaptureLen(s, i, NumericCapture))

\* an outcome of a call: a returned value or a raised exception
Returned(v) == [kind |-> "return", val |-> v, exc |-> "none"]
Raised(e) == [kind |-> "raise", val |-> NoneVal, exc |-> e]

\* matches = re.findall(self.code_pattern, s); matches[0] if matches
FirstFallbackMatch(cp, s) ==
  IF CompileFails(cp) THEN Raised("re.error")
  ELSE Returned(Group1(s, FirstOf([i \in 0..Len(s) |-> CodePatternAt(cp, s, i)],
                                  NoMatch)))

\* the fallback is searched when no context pattern matched (ctx is None)
OrFallback(ctx, cp, s) ==
  IF ctx.some THEN Returned(ctx) ELSE FirstFallbackMatch(cp, s)

\* lines 130-141 and 145-157: the context patterns, then the fallback, on
\* one body; Returned(NoneVal) when the stage falls through
SearchBody(cp, s) == OrFallback(FirstContextMatch(s), cp, s)

\* context_patterns is a local assigned inside "if clean_html:" only
ContextPatternsBound(clean_html) == clean_html # <<>>

\* lines 143-160
TextStage(cp, clean_html, text) ==
  IF text = <<>> THEN Returned(NoneVal)
  ELSE IF ~ContextPatternsBound(clean_html) THEN Raised("UnboundLocalError")
  ELSE SearchBody(cp, text)

\* lines 116-141
HtmlStage(cp, clean_html) ==
  IF clean_html = <<>> THEN Returned(NoneVal) ELSE SearchBody(cp, clean_html)

\* the HTML stage returns or raises, or falls through to the text stage
Stages(fromHtml, cp, clean_html, text) ==
  IF fromHtml.kind = "raise" \/ fromHtml.val.some
  THEN fromHtml
  ELSE TextStage(cp, clean_html, text)

CodeOfBodies(cp, clean_html, text) ==
  Stages(HtmlStage(cp, clean_html), cp, clean_html, text)

extract_confirmation_code(cp, html, text) ==
  CodeOfBodies(cp, _clean_html(html), text)

--------------------------------------------------------------------------
(* extract_confirmation_link *)

\* link_pattern:
\*   href="(https://[^"]*?(?:\?[^"]*|verify|confirm|token|code)[^"]*?)"
HrefOpen == <<"h", "r", "e", "f", "=", "\"", "h", "t", "t", "p", "s", ":", "/", "/">>
Scheme == <<"h", "t", "t", "p", "s", ":", "/", "/">>
LinkKeywords ==
  {<<"v", "e", "r", "i", "f", "y">>,
   <<"c", "o", "n", "f", "i", "r", "m">>,
   <<"t", "o", "k", "e", "n">>,
   <<"c", "o", "d", "e">>}

\* offset of the quote closing the href that opens at offset i, -1 when the
\* pattern does not match at i: nothing in the group can cross a quote, so
\* the part after https:// must hold a '?' or one of the keywords
LinkEnd(s, i) ==
  LET t0 == i + Len(HrefOpen)
      q == IndexOf(s, <<"\"">>, t0)
      tail == SubSeq(s, t0 + 1, q)
  IN IF ~OccursAt(s, HrefOpen, i) \/ q < 0 THEN -1
     ELSE IF \/ IndexOf(tail, <<"?">>, 0) >= 0
             \/ \E kw \in LinkKeywords : IndexOf(tail, kw, 0) >= 0
     THEN q
     ELSE -1

\* the link of the href opening at offset i and closing at offset q; None
\* when the pattern does not match at i
LinkAt(s, i, q) ==
  IF q < 0 THEN NoneVal
  ELSE Some(SubSeq(s, i + Len(HrefOpen) - Len(Scheme) + 1, q))

\* the last link of s instead of the first
LastLink(s) ==
  FirstOf([k \in 0..Len(s) |->
             LinkAt(s, Len(s) - k, LinkEnd(s, Len(s) - k))], NoneVal)

\* all_links = re.findall(self.link_pattern, s); all_links[0] if all_links
FirstLink(s) ==
  FirstOf([i \in 0..Len(s) |-> LinkAt(s, i, LinkEnd(s, i))], NoneVal)

\* the text is searched when the HTML stage found no link
OrTextLink(fromHtml, text) ==
  IF fromHtml.some THEN fromHtml
  ELSE IF text # <<>> THEN FirstLink(text)
  ELSE NoneVal

\* the link extract_confirmation_link hands to _follow_redirects
LinkToFollow(html, text) ==
  OrTextLink(IF html # <<>> THEN FirstLink(html) ELSE NoneVal, text)

--------------------------------------------------------------------------
(* The message bodies the mailbox API is taken to deliver *)

FragShortCode == <<"c", "o", "d", "e", ":", " ", "4", "8", "2", "1", " ">>
FragFullNumeric == <<"A", "u", "t", "h", " ", "C", "o", "d", "e", ":", " ", "1", "2", "3", "4", "5", "6", " ">>
FragCyrillicAlnum == <<"cy_k", "cy_o", "cy_d", " ", "cy_p", "cy_o", "cy_d", "cy_t", "cy_v", "cy_e", "cy_r", "cy_zh", "cy_d", "cy_e", "cy_n", "cy_i", "cy_ya", ":", " ", "A", "B", "1", "2", "C", "D", " ">>
FragBareNumber == <<"9", "9", "9", "9", " ">>
FragPlain == <<"<", "b", ">", "h", "e", "l", "l", "o", "<", "/", "b", ">", " ">>
FragCssMeasure == <<"m", "a", "r", "g", "i", "n", ":", " ", "1", "2", "3", "4", "p", "x", " ">>
FragStyleBlock == <<"<", "s", "t", "y", "l", "e", ">", "p", "{", "w", "i", "d", "t", "h", ":", "5", "6", "7", "8", "}", "<", "/", "s", "t", "y", "l", "e", ">">>
FragLink == <<"<", "a", " ", "h", "r", "e", "f", "=", "\"", "h", "t", "t", "p", "s", ":", "/", "/", "e", ".", "x", "/", "v", "e", "r", "i", "f", "y", "\"", ">", "<", "/", "a", ">">>
FragEntities == <<"&", "l", "t", ";", "b", "&", "g", "t", ";">>
FragPhraseCode == <<"y", "o", "u", "r", " ", "c", "o", "d", "e", " ", "i", "s", " ", "2", "4", "6", "8", " ">>
FragHyphenCode == <<"a", "u", "t", "h", " ", "c", "o", "d", "e", ":", " ", "A", "B", "-", "1", "2", "-", "C", "D", " ">>

FragShortHyphen == <<"c", "o", "d", "e", ":", " ", "X", "Y", "-", "3", "4", "-", "Z", "W", " ">>
FragTokenLink == <<"<", "a", " ", "h", "r", "e", "f", "=", "\"", "h", "t", "t", "p", "s", ":", "/", "/", "e", ".", "x", "/", "t", "o", "k", "e", "n", "\"", ">", "<", "/", "a", ">">>
FragHomeLink == <<"<", "a", " ", "h", "r", "e", "f", "=", "\"", "h", "t", "t", "p", "s", ":", "/", "/", "e", ".", "x", "/", "h", "o", "m", "e", "\"", ">", "<", "/", "a", ">">>
FragUpperStyle == <<"<", "S", "T", "Y", "L", "E", ">", "p", "{", "w", "i", "d", "t", "h", ":", "8", "7", "6", "5", "}", "<", "/", "S", "T", "Y", "L", "E", ">">>
FragMultilineStyle == <<"<", "s", "t", "y", "l", "e", ">", "\n", "p", "{", "h", "e", "i", "g", "h", "t", ":", "4", "3", "2", "1", "}", "\n", "<", "/", "s", "t", "y", "l", "e", ">">>
FragSpaced == <<"<", "p", ">", "o", "n", "e", "<", "/", "p", ">", "\n", "\n", "<", "p", ">", "t", "w", "o", "<", "/", "p", ">", " ">>

HtmlFragments ==
  {FragShortCode, FragFullNumeric, FragCyrillicAlnum,
   FragBareNumber, FragPlain, FragCssMeasure,
   FragStyleBlock, FragLink, FragEntities,
   FragPhraseCode, FragHyphenCode, FragShortHyphen,
   FragTokenLink, FragHomeLink, FragUpperStyle, FragMultilineStyle,
   FragSpaced}

\* bodyHtml values: empty, one fragment, or two fragments in a row
HtmlBodies ==
  {<<>>} \cup HtmlFragments \cup {a \o b : a, b \in HtmlFragments}

TextConfirmation == <<"Y", "o", "u", "r", " ", "c", "o", "n", "f", "i", "r", "m", "a", "t", "i", "o", "n", " ", "c", "o", "d", "e", ":", " ", "1", "2", "3", "4", "5", "6">>
TextLinkAndNumber == <<"h", "r", "e", "f", "=", "\"", "h", "t", "t", "p", "s", ":", "/", "/", "e", ".", "x", "/", "c", "o", "n", "f", "i", "r", "m", "?", "x", "=", "1", "\"", " ", "7", "7", "7", "7">>
TextPlain == <<"h", "e", "l", "l", "o">>

\* bodyText values
TextBodies == {<<>>, TextConfirmation, TextLinkAndNumber, TextPlain}

\* the bodies of the messages a whole run is explored with
RunHtmlBodies ==
  {<<>>, FragShortCode, FragLink, FragLink \o FragShortCode,
   FragLink \o FragPlain}
RunTextBodies == {<<>>, TextConfirmation}

CodePatterns == {default_code_pattern, bare_code_pattern}

--------------------------------------------------------------------------
(* The mailbox API and the transport *)

\* A JSON object: the keys it holds and their values (a key that is not
\* held keeps the empty value of its type).
EmptyJson ==
  [keys |-> {}, mailbox |-> <<>>, token |-> <<>>, messages |-> <<>>,
   bodyHtml |-> <<>>, bodyText |-> <<>>]

\* dict.get(key, default)
Get(json, key, default) == IF key \in json.keys THEN json[key] ELSE default

\* Python truthiness of a dict
TruthyJson(json) == json.keys # {}

Mailboxes == {<<"a", "@", "t", ".", "x">>, <<"b", "@", "t", ".", "x">>}
Token == <<"t", "k">>
Id1 == <<"m", "1">>
Id2 == <<"m", "2">>
\* the lists of message identifiers GET /messages may return
MessageLists == {<<>>, <<Id1>>, <<Id2, Id1>>}

\* POST /mailbox
MailboxJsons ==
  {[EmptyJson EXCEPT !.keys = {"mailbox", "token"}, !.mailbox = m,
                     !.token = Token] : m \in Mailboxes}
    \cup {EmptyJson}

\* GET /messages
ListJsons ==
  {[EmptyJson EXCEPT !.keys = {"messages"}, !.messages = l] :
     l \in MessageLists}
    \cup {EmptyJson}

\* GET /messages/{id}: a message with both bodies, with bodyText alone,
\* with neither, or an empty object
DetailJsons ==
  {[EmptyJson EXCEPT !.keys = {"_id", "bodyHtml", "bodyText"},
                     !.bodyHtml = h, !.bodyText = t] :
     h \in RunHtmlBodies, t \in RunTextBodies}
    \cup {[EmptyJson EXCEPT !.keys = {"_id", "bodyText"}, !.bodyText = t] :
            t \in RunTextBodies}
    \cup {[EmptyJson EXCEPT !.keys = {"_id"}], EmptyJson}

\* what one scraper.request ends in: a 200 response whose body decodes, a
\* 200 response whose body does not, another status, or an exception
\* (connection error, timeout)
FailedOutcomes == {"bad_json", "status", "exception"}

\* the address a followed link ends at when it redirects
RedirectTarget == <<"h", "t", "t", "p", "s", ":", "/", "/", "e", ".", "x", "/", "d", "o", "n", "e">>

NoResponse == [some |-> FALSE, json |-> EmptyJson]

\* no link has been followed
NoFollow == [url |-> NoneVal, how |-> "none"]

--------------------------------------------------------------------------
(* The state *)

VARIABLES
  pc,            \* where run() is
  mr,            \* where the active _make_request call is
  attempt,       \* its loop variable
  tries,         \* HTTP attempts it has made
  outcome,       \* what its latest HTTP attempt ended in
  delays,        \* the time.sleep calls it made, in seconds
  response,      \* what it returned
  code_pattern,  \* self.code_pattern
  max_attempts,  \* poll_for_messages' max_attempts
  poll_attempt,  \* poll_for_messages' loop variable
  list_queries,  \* list queries poll_for_messages has made
  poll_waits,    \* the time.sleep calls it made, in seconds
  failed_queries,\* list queries for which _make_request returned None
  mail_info,     \* run()'s mail_info
  message_id,    \* run()'s message_id
  message_details, \* run()'s message_details
  body_html,     \* run()'s body_html
  body_text,     \* run()'s body_text
  result,        \* run()'s result dict
  raised,        \* the exception that left run(), "none" if none did
  requests,      \* HTTP requests issued so far, by kind
  follow_get,    \* the GET of _follow_redirects: its URL and how it ended
  detail_ids,    \* the identifiers message details were requested for
  stages         \* the stages of run() entered so far, in order

vars ==
  <<pc, mr, attempt, tries, outcome, delays, response, code_pattern,
    max_attempts, poll_attempt, list_queries, poll_waits, failed_queries,
    mail_info, message_id, message_details, body_html, body_text, result,
    raised, requests, follow_get, detail_ids, stages>>

callVars == <<mr, attempt, tries, outcome, delays, response>>
pollVars == <<poll_attempt, list_queries, poll_waits, failed_queries>>
configVars == <<code_pattern, max_attempts>>
bodyVars == <<message_details, body_html, body_text>>

\* lines 163-168
InitialResult ==
  [status |-> "failed", email |-> NoneVal, confirmation_link |-> NoneVal,
   confirmation_code |-> NoneVal]

NoMailInfo == [mailbox |-> <<>>, token |-> <<>>]

Init ==
  /\ pc = "start"
  /\ mr = "idle"
  /\ attempt = 0
  /\ tries = 0
  /\ outcome = "none"
  /\ delays = <<>>
  /\ response = NoResponse
  /\ code_pattern = default_code_pattern
  /\ max_attempts \in 1..MaxAttempts
  /\ poll_attempt = 0
  /\ list_queries = 0
  /\ poll_waits = <<>>
  /\ failed_queries = 0
  /\ mail_info = NoMailInfo
  /\ message_id = NoneVal
  /\ message_details = NoResponse
  /\ body_html = <<>>
  /\ body_text = <<>>
  /\ result = InitialResult
  /\ raised = "none"
  /\ requests = [post |-> 0, list |-> 0, detail |-> 0, follow |-> 0]
  /\ follow_get = NoFollow
  /\ detail_ids = {}
  /\ stages = <<>>

--------------------------------------------------------------------------
(* _make_request *)

\* a call of _make_request begins: for attempt in range(self.max_retries)
BeginCall ==
  /\ mr' = "request"
  /\ attempt' = 0
  /\ tries' = 0
  /\ outcome' = "none"
  /\ delays' = <<>>
  /\ response' = NoResponse

\* the caller has taken the return value; the call's frame is gone
EndCall ==
  /\ mr' = "idle"
  /\ attempt' = 0
  /\ tries' = 0
  /\ outcome' = "none"
  /\ delays' = <<>>
  /\ response' = NoResponse

\* the JSON bodies the request of the active call may be answered with
ResponseJsons ==
  CASE pc = "get_temp_mail" -> MailboxJsons
    [] pc = "poll_for_messages" -> ListJsons
    [] pc = "get_message_details" -> DetailJsons
    [] OTHER -> {}

\* one more HTTP request of the kind the active call makes
CountRequest ==
  CASE pc = "get_temp_mail" -> [requests EXCEPT !.post = @ + 1]
    [] pc = "poll_for_messages" -> [requests EXCEPT !.list = @ + 1]
    [] pc = "get_message_details" -> [requests EXCEPT !.detail = @ + 1]
    [] OTHER -> requests

\* a backoff that grows linearly
LinearBackoffDelay(n) == retry_delay * (n + 1)

\* line 41: time.sleep(self.retry_delay * (2 ** attempt))
BackoffDelay(n) == retry_delay * (2 ^ n)

\* lines 65 and 34: the request of get_message_details is for
\* /messages/{message_id}
FetchedIds ==
  IF pc = "get_message_details"
  THEN detail_ids \cup {message_id.val}
  ELSE detail_ids

\* a retry loop that makes one pass too many
OneRetryMore(n) == n < max_retries

\* range(self.max_retries) has a value after n
MoreRetries(n) == n + 1 < max_retries

\* lines 34-36: the request gets a 200 response and response.json() is
\* returned
RequestSucceeds ==
  /\ mr = "request"
  /\ \E json \in ResponseJsons :
       response' = [some |-> TRUE, json |-> json]
  /\ tries' = tries + 1
  /\ outcome' = "ok"
  /\ requests' = CountRequest
  /\ detail_ids' = FetchedIds
  /\ mr' = "done"
  /\ UNCHANGED <<pc, attempt, delays, configVars, pollVars, mail_info,
                 message_id, bodyVars, result, raised, stages,
                 follow_get>>

\* lines 34-40: another status, or an exception of the request or of
\* response.json(), logged
RequestFails ==
  /\ mr = "request"
  /\ tries' = tries + 1
  /\ \E f \in FailedOutcomes : outcome' = f
  /\ requests' = CountRequest
  /\ detail_ids' = FetchedIds
  /\ mr' = "sleep"
  /\ UNCHANGED <<pc, attempt, delays, response, configVars, pollVars,
                 mail_info, message_id, bodyVars, result, raised,
                 stages,
                 follow_get>>

\* line 41, then the next pass of the loop or line 42 (return None)
Backoff ==
  /\ mr = "sleep"
  /\ delays' = Append(delays, BackoffDelay(attempt))
  /\ attempt' = attempt + 1
  /\ mr' = IF MoreRetries(attempt) THEN "request" ELSE "done"
  /\ response' = NoResponse
  /\ outcome' = "none"
  /\ UNCHANGED <<pc, tries, configVars, pollVars, mail_info, message_id,
                 bodyVars, result, raised, requests, stages,
                 follow_get, detail_ids>>

\* "if response:" on what _make_request returned
GotData == response.some /\ TruthyJson(response.json)

--------------------------------------------------------------------------
(* run() and the calls it makes *)

\* lines 163-170 and 45-46: the result dict, then get_temp_mail's request
Run ==
  /\ pc = "start"
  /\ result' = InitialResult
  /\ pc' = "get_temp_mail"
  /\ stages' = Append(stages, "get_temp_mail")
  /\ BeginCall
  /\ UNCHANGED <<configVars, pollVars, mail_info, message_id,
                 bodyVars, raised, requests,
                 follow_get, detail_ids>>

\* a run() that leaves the email field as it was
EmailFieldNotSet(info) == NoneVal

\* line 174
EmailField(info) == Some(info.mailbox)

\* lines 47-50 and 171-176 (then 53-56: the poller's first list query)
GetTempMailReturns ==
  /\ pc = "get_temp_mail"
  /\ mr = "done"
  /\ IF GotData
     THEN /\ mail_info' = [mailbox |-> Get(response.json, "mailbox", <<>>),
                           token |-> Get(response.json, "token", <<>>)]
          /\ result' = [result EXCEPT !.email = EmailField(mail_info')]
          /\ pc' = "poll_for_messages"
          /\ stages' = Append(stages, "poll_for_messages")
          /\ poll_attempt' = 0
          /\ list_queries' = 1
          /\ poll_waits' = <<>>
          /\ failed_queries' = 0
          /\ BeginCall
     ELSE /\ pc' = "returned"
          /\ EndCall
          /\ UNCHANGED <<mail_info, result, stages, pollVars>>
  /\ UNCHANGED <<configVars, message_id, bodyVars, raised, requests,
                 follow_get, detail_ids>>

\* line 57: "if response and response.get('messages')"
HasMessages == GotData /\ Get(response.json, "messages", <<>>) # <<>>

\* the identifier of the last message listed
LastMessageId(messages) == messages[Len(messages)]

\* line 58: response["messages"][0].get("_id")
FirstMessageId(messages) == messages[1]

\* a poller that gives up when _make_request returned None
GiveUpOnFailedQuery == IF response.some THEN "poll_sleep" ELSE "returned"

\* where poll_for_messages goes when line 57 finds no message, whatever
\* _make_request returned: to line 60
AfterNoMessages == "poll_sleep"

\* lines 57-59 and 177-180 (then 65-67: the detail request), or line 60
\* reached
PollReturns ==
  /\ pc = "poll_for_messages"
  /\ mr = "done"
  /\ IF HasMessages
     THEN /\ message_id' = Some(FirstMessageId(response.json.messages))
          /\ IF Truthy(message_id')
             THEN /\ pc' = "get_message_details"
                  /\ stages' = Append(stages, "get_message_details")
                  /\ BeginCall
             ELSE /\ pc' = "returned"
                  /\ EndCall
                  /\ UNCHANGED stages
          /\ UNCHANGED failed_queries
     ELSE /\ pc' = AfterNoMessages
          /\ failed_queries' =
               IF response.some THEN failed_queries ELSE failed_queries + 1
          /\ EndCall
          /\ UNCHANGED <<message_id, stages>>
  /\ UNCHANGED <<configVars, poll_attempt, list_queries, poll_waits,
                 mail_info, bodyVars, result, raised, requests,
                 follow_get, detail_ids>>

\* a loop that makes one pass too many
OneAttemptMore(n) == n < max_attempts

\* range(max_attempts) has a value after n
MoreAttempts(n) == n + 1 < max_attempts

\* line 60, then the next pass of the loop (lines 55-56) or lines 61-62 and
\* 177-178: the poller returns None and run() returns result
PollSleep ==
  /\ pc = "poll_sleep"
  /\ poll_waits' = Append(poll_waits, poll_interval)
  /\ poll_attempt' = poll_attempt + 1
  /\ IF MoreAttempts(poll_attempt)
     THEN /\ pc' = "poll_for_messages"
          /\ list_queries' = list_queries + 1
          /\ BeginCall
     ELSE /\ pc' = "returned"
          /\ UNCHANGED <<list_queries, callVars>>
  /\ UNCHANGED <<configVars, failed_queries, mail_info, message_id,
                 bodyVars, result, raised, requests, stages,
                 follow_get, detail_ids>>

\* a run() that goes from the message details to the code extractor
CodeBeforeLink == "extract_code"

\* line 187 comes after line 185
AfterMessageDetails == "extract_link"

\* lines 68-70 and 181-185
GetMessageDetailsReturns ==
  /\ pc = "get_message_details"
  /\ mr = "done"
  /\ IF GotData
     THEN /\ message_details' = response
          /\ body_html' = Get(response.json, "bodyHtml", <<>>)
          /\ body_text' = Get(response.json, "bodyText", <<>>)
          /\ pc' = AfterMessageDetails
     ELSE /\ pc' = "returned"
          /\ UNCHANGED bodyVars
  /\ EndCall
  /\ UNCHANGED <<configVars, pollVars, mail_info, message_id, result,
                 raised, requests, stages,
                 follow_get, detail_ids>>

\* what scraper.get of _follow_redirects ends in: a response whose url is
\* the requested one, a response after a redirect, or an exception
FollowOutcomes == {"same", "redirected", "exception"}

\* lines 101-108
_follow_redirects(url, how) ==
  IF how = "redirected" THEN Some(RedirectTarget) ELSE Some(url)

\* lines 92-99: the link found is followed; none found is None
FollowLink(link) ==
  IF link.some
  THEN /\ requests' = [requests EXCEPT !.follow = @ + 1]
       /\ \E how \in FollowOutcomes :
            /\ follow_get' = [url |-> link, how |-> how]
            /\ result' = [result EXCEPT !.confirmation_link =
                            _follow_redirects(link.val, how)]
  ELSE /\ result' = [result EXCEPT !.confirmation_link = NoneVal]
       /\ UNCHANGED <<requests, follow_get>>

\* line 187 with extract_confirmation_link, lines 87-99
ExtractLink ==
  /\ pc = "extract_link"
  /\ stages' = Append(stages, "extract_confirmation_link")
  /\ FollowLink(LinkToFollow(body_html, body_text))
  /\ pc' = "extract_code"
  /\ UNCHANGED <<callVars, configVars, pollVars, mail_info, message_id,
                 bodyVars, raised, detail_ids>>

\* a status that asks for both a link and a code
StatusNeedsBoth(link, code) ==
  IF Truthy(link) /\ Truthy(code) THEN "success" ELSE "failed"

\* lines 190-191
StatusOf(link, code) ==
  IF Truthy(link) \/ Truthy(code) THEN "success" ELSE "failed"

\* lines 188-193: the code is stored and the result returned, or the
\* extractor's exception leaves run()
StoreCode(out) ==
  IF out.kind = "raise"
  THEN /\ pc' = "raised"
       /\ raised' = out.exc
       /\ UNCHANGED result
  ELSE /\ pc' = "returned"
       /\ result' = [result EXCEPT
                       !.confirmation_code = out.val,
                       !.status = StatusOf(result.confirmation_link, out.val)]
       /\ UNCHANGED raised

\* line 188 with extract_confirmation_code, lines 110-160
ExtractCode ==
  /\ pc = "extract_code"
  /\ stages' = Append(stages, "extract_confirmation_code")
  /\ StoreCode(extract_confirmation_code(code_pattern, body_html, body_text))
  /\ UNCHANGED <<callVars, configVars, pollVars, mail_info, message_id,
                 bodyVars, requests,
                 follow_get, detail_ids>>

Next ==
  \/ Run
  \/ RequestSucceeds
  \/ RequestFails
  \/ Backoff
  \/ GetTempMailReturns
  \/ PollReturns
  \/ PollSleep
  \/ GetMessageDetailsReturns
  \/ ExtractLink
  \/ ExtractCode

Spec == Init /\ [][Next]_vars

--------------------------------------------------------------------------
(* The extractors on their own: run() has fetched a message, whose bodies  *)
(* range over HtmlBodies and TextBodies, and is at line 187                *)

InitExtract ==
  /\ pc = "extract_link"
  /\ mr = "idle"
  /\ attempt = 0
  /\ tries = 0
  /\ outcome = "none"
  /\ delays = <<>>
  /\ response = NoResponse
  /\ code_pattern \in CodePatterns
  /\ max_attempts = 1
  /\ poll_attempt = 0
  /\ list_queries = 1
  /\ poll_waits = <<>>
  /\ failed_queries = 0
  /\ mail_info = [mailbox |-> CHOOSE m \in Mailboxes : TRUE, token |-> Token]
  /\ message_id = Some(Id1)
  /\ body_html \in HtmlBodies
  /\ body_text \in TextBodies
  /\ message_details =
       [some |-> TRUE,
        json |-> [EmptyJson EXCEPT !.keys = {"_id", "bodyHtml", "bodyText"},
                                   !.bodyHtml = body_html,
                                   !.bodyText = body_text]]
  /\ result = [InitialResult EXCEPT !.email = EmailField(mail_info)]
  /\ raised = "none"
  /\ requests = [post |-> 1, list |-> 1, detail |-> 1, follow |-> 0]
  /\ follow_get = NoFollow
  /\ detail_ids = {Id1}
  /\ stages = <<"get_temp_mail", "poll_for_messages", "get_message_details">>

NextExtract == ExtractLink \/ ExtractCode

ExtractSpec == InitExtract /\ [][NextExtract]_vars

--------------------------------------------------------------------------
(* What is claimed of run(), poll_for_messages and _make_request *)

\* how a run that returned before the extractors ended
ProvisioningFailed == mail_info = NoMailInfo
PollerNotFound == mail_info # NoMailInfo /\ ~message_id.some
DetailFetchFailed == message_id.some /\ ~message_details.some

ExtractorStages == {"extract_confirmation_link", "extract_confirmation_code"}

\* C1: in every record run() returns, status is "success" if and only if
\* confirmation_link or confirmation_code is not null, and "failed" otherwise
C1_StatusIffFound ==
  pc = "returned" =>
    /\ result.status \in {"success", "failed"}
    /\ result.status = "success" <=>
         (result.confirmation_link # NoneVal \/ result.confirmation_code # NoneVal)

\* run() returned "success" with a code and no link
C1_Witness ==
  /\ pc = "returned"
  /\ result.status = "success"
  /\ result.confirmation_link = NoneVal
  /\ result.confirmation_code # NoneVal

\* C2: whatever the HTTP calls end in and whatever the bodies of the message
\* are, no exception leaves run(): it ends by returning its result record
C2_NoExceptionLeavesRun == pc # "raised" /\ raised = "none"

\* C3: when provisioning fails, the poller finds no message or the detail
\* fetch fails, run() returns status "failed" with link and code null, no
\* extractor has run and no redirect was followed; email is null when
\* provisioning failed and the provisioned address otherwise
C3_EarlyFailure ==
  (pc = "returned" /\ (ProvisioningFailed \/ PollerNotFound \/ DetailFetchFailed)) =>
    /\ result.status = "failed"
    /\ result.confirmation_link = NoneVal
    /\ result.confirmation_code = NoneVal
    /\ \A i \in 1..Len(stages) : stages[i] \notin ExtractorStages
    /\ requests.follow = 0
    /\ IF ProvisioningFailed
       THEN result.email = NoneVal
       ELSE result.email = Some(mail_info.mailbox) /\ mail_info.mailbox \in Mailboxes

\* run() returned after the detail fetch of a listed message failed
C3_Witness ==
  /\ pc = "returned"
  /\ DetailFetchFailed
  /\ requests.detail = max_retries
  /\ result.email # NoneVal

\* C4: poll_for_messages returns not-found exactly when max_attempts list
\* queries have been made, each followed by one wait of poll_interval
C4_NotFoundOnlyAfterBudget ==
  /\ (pc = "returned" /\ PollerNotFound) =>
       /\ list_queries = max_attempts
       /\ poll_waits = [i \in 1..max_attempts |-> poll_interval]
  /\ Len(poll_waits) = max_attempts => (pc = "returned" /\ PollerNotFound)

\* with max_attempts = 1 and an empty message list: not-found after one
\* list query and one wait
C4_Witness ==
  /\ pc = "returned"
  /\ PollerNotFound
  /\ max_attempts = 1
  /\ failed_queries = 0
  /\ list_queries = 1
  /\ poll_waits = <<poll_interval>>

\* C5: the first list response that holds a message ends the polling at
\* once with the identifier of its first message: no wait and no list query
\* follows
C5_FirstMessageAtOnce ==
  /\ [][(pc = "poll_for_messages" /\ mr = "done" /\ response.some
           /\ response.json.messages # <<>>) =>
          /\ message_id' = Some(response.json.messages[1])
          /\ pc' = "get_message_details"
          /\ UNCHANGED <<list_queries, poll_waits>>]_vars
  /\ [](message_id.some =>
          list_queries = Len(poll_waits) + 1 /\ Len(poll_waits) < max_attempts)

\* the second list query returned two messages and the first one is taken
C5_Witness ==
  /\ pc = "get_message_details"
  /\ message_id = Some(Id2)
  /\ list_queries = 2
  /\ Len(poll_waits) = 1

\* C6: a list query whose transport failed for good is a round without a
\* message: the poller waits poll_interval and, while attempts are left,
\* queries again
C6_FailedQueryIsNoMessage ==
  /\ [][(pc = "poll_for_messages" /\ mr = "done" /\ ~response.some) =>
          /\ pc' = "poll_sleep"
          /\ UNCHANGED <<message_id, result>>]_vars
  /\ [][(pc = "poll_sleep" /\ Len(poll_waits) + 1 < max_attempts) =>
          /\ poll_waits' = Append(poll_waits, poll_interval)
          /\ pc' = "poll_for_messages"
          /\ mr' = "request"
          /\ list_queries' = list_queries + 1]_vars

\* a message was returned by a list query made after one whose transport
\* had failed
C6_Witness ==
  /\ pc = "get_message_details"
  /\ message_id.some
  /\ failed_queries >= 1

\* C7: a call of _make_request makes at most max_retries attempts, follows
\* each failed attempt by a delay of 2, 4, 8 seconds, stops at the first 200
\* response, returns None when max_retries attempts failed and never raises
C7_BoundedRetries ==
  /\ tries <= max_retries
  /\ Len(delays) <= max_retries
  /\ \A i \in 1..Len(delays) : delays[i] = <<2, 4, 8>>[i]
  /\ mr = "request" => Len(delays) = tries
  /\ mr = "sleep" => (Len(delays) = tries - 1 /\ outcome \in FailedOutcomes)
  /\ (mr = "done" /\ response.some) =>
       (outcome = "ok" /\ Len(delays) = tries - 1)
  /\ (mr = "done" /\ ~response.some) =>
       (tries = max_retries /\ delays = <<2, 4, 8>>)
  /\ mr # "idle" => raised = "none"

\* a call returned None after three failed attempts and their delays
C7_Witness ==
  /\ mr = "done"
  /\ ~response.some
  /\ tries = max_retries
  /\ delays = <<2, 4, 8>>

--------------------------------------------------------------------------
(* What is claimed of extract_confirmation_code *)

\* extract_confirmation_code has been called and has returned or raised
CodeExtracted == pc \in {"returned", "raised"}

\* the first occurrence of the code pattern cp in s, None when there is none
FirstOccurrence(cp, s) ==
  Group1(s, FirstOf([i \in 0..Len(s) |-> CodePatternAt(cp, s, i)], NoMatch))

\* the first hit in s: of the context patterns in their order (ctx), else
\* of the code pattern
HitOr(ctx, cp, s) == IF ctx.some THEN ctx ELSE FirstOccurrence(cp, s)
FirstHit(cp, s) == HitOr(FirstContextMatch(s), cp, s)

\* the HTML stage yields nothing: the body is normalized to the empty
\* string, or neither a context pattern nor the code pattern hits it
HtmlYieldsNothing(clean) == clean = <<>> \/ FirstHit(code_pattern, clean) = NoneVal

TextSearchedAfter(clean) ==
  (HtmlYieldsNothing(clean) /\ body_text # <<>>) =>
    /\ pc = "returned"
    /\ result.confirmation_code = FirstHit(code_pattern, body_text)

\* C8: when the HTML stage yields nothing and bodyText is not empty, the
\* context patterns in their order and then the fallback pattern are applied
\* to bodyText and the first hit is returned as the code
C8_TextSearchedWhenHtmlYieldsNothing ==
  CodeExtracted => TextSearchedAfter(_clean_html(body_html))

\* no context pattern and no occurrence of the code pattern in either body
NoHitAnywhere ==
  /\ FirstHit(code_pattern, _clean_html(body_html)) = NoneVal
  /\ FirstHit(code_pattern, body_text) = NoneVal

\* the call returns, and returns None when there is nothing to find
ReturnsCodeOrNone(out) ==
  /\ out.kind = "return"
  /\ NoHitAnywhere => out.val = NoneVal

\* C9: with the constructor's code_pattern, extract_confirmation_code
\* raises for no bodyHtml and bodyText: it returns a code or None, and None
\* when no context pattern and no fallback occurrence is in either body
C9_ExtractorNeverRaises ==
  (pc = "extract_code" /\ code_pattern = default_code_pattern) =>
    ReturnsCodeOrNone(extract_confirmation_code(code_pattern, body_html, body_text))

\* the context patterns that match s, by their place in the list
MatchingPatterns(s) ==
  {k \in 1..Len(context_patterns) : SearchGroup1(context_patterns[k], s).some}

\* the code returned is what the first of the patterns M captures in s
CodeIsFirstCapture(s, M) ==
  M # {} =>
    /\ pc = "returned"
    /\ result.confirmation_code = SearchGroup1(context_patterns[Min(M)], s)

FirstPatternWins(s) == CodeIsFirstCapture(s, MatchingPatterns(s))

\* the text is searched after a normalized HTML body clean that no pattern
\* hit
TextSearched(clean) ==
  /\ clean # <<>>
  /\ body_text # <<>>
  /\ HtmlStage(code_pattern, clean) = Returned(NoneVal)

SearchedBodies(clean) ==
  /\ clean # <<>> => FirstPatternWins(clean)
  /\ TextSearched(clean) => FirstPatternWins(body_text)

\* C10: of a body that is searched, the code returned is the capture of the
\* first context pattern, in list order, that matches it; the fallback
\* pattern is consulted only when no context pattern matches
C10_FirstContextPatternWins ==
  CodeExtracted => SearchedBodies(_clean_html(body_html))

\* a pattern later in the list matches s too and captures another value
LaterPatternDiffers(s) ==
  \E k \in MatchingPatterns(s) :
     SearchGroup1(context_patterns[k], s) # result.confirmation_code

\* the code of the first matching pattern was returned although a later
\* pattern captures another value in the same body
C10_Witness ==
  /\ pc = "returned"
  /\ code_pattern = default_code_pattern
  /\ result.confirmation_code # NoneVal
  /\ LaterPatternDiffers(_clean_html(body_html))

--------------------------------------------------------------------------
(* What is claimed of the list of context patterns *)

\* the trigger class of a pattern: 1 full phrases, 2 bare "code", 3 phrase
\* triggers; and its capture: 1 numeric, 2 alphanumeric, 3 with hyphens
TriggerClass(p) ==
  CASE p.trig = FullTriggers -> 1
    [] p.trig = ShortTriggers -> 2
    [] p.trig = PhraseTriggers -> 3

CaptureKind(p) ==
  CASE p.cap = NumericCapture -> 1
    [] p.cap = AlnumCapture -> 2
    [] p.cap = HyphenCapture -> 3

\* p comes before q class by class, and capture by capture within a class
ClassMajorBefore(p, q) ==
  \/ TriggerClass(p) < TriggerClass(q)
  \/ TriggerClass(p) = TriggerClass(q) /\ CaptureKind(p) < CaptureKind(q)

\* of the patterns M, the one that comes first class by class
FirstByClass(M) ==
  CHOOSE k \in M :
    \A j \in M \ {k} : ClassMajorBefore(context_patterns[k], context_patterns[j])

CodeIsFirstByClass(s, M) ==
  (pc = "returned" /\ s # <<>> /\ M # {}) =>
    result.confirmation_code = SearchGroup1(context_patterns[FirstByClass(M)], s)

\* the list the claim describes: each of the three classes with the three
\* captures, class by class
ClaimedPatterns ==
  <<[trig |-> FullTriggers, cap |-> NumericCapture],
    [trig |-> FullTriggers, cap |-> AlnumCapture],
    [trig |-> FullTriggers, cap |-> HyphenCapture],
    [trig |-> ShortTriggers, cap |-> NumericCapture],
    [trig |-> ShortTriggers, cap |-> AlnumCapture],
    [trig |-> ShortTriggers, cap |-> HyphenCapture],
    [trig |-> PhraseTriggers, cap |-> NumericCapture],
    [trig |-> PhraseTriggers, cap |-> AlnumCapture],
    [trig |-> PhraseTriggers, cap |-> HyphenCapture]>>

ClaimedMatch(s) ==
  FirstOf([k \in 1..Len(ClaimedPatterns) |-> SearchGroup1(ClaimedPatterns[k], s)],
          NoneVal)

CodeIsClaimed(s, claimed) ==
  (pc = "returned" /\ s # <<>> /\ claimed.some) =>
    result.confirmation_code = claimed

ClaimedMatchReturned(s) == CodeIsClaimed(s, ClaimedMatch(s))

\* C11 as stated: every class, the bare "code" and the phrase triggers
\* included, is tried with a numeric, an alphanumeric and a hyphenated
\* capture, so the code returned for a searched body is the first capture of
\* that list of nine
C11_EveryClassHasThreeCaptures ==
  ClaimedMatchReturned(_clean_html(body_html))

\* C11 amended: the list goes class by class (full phrases, bare "code",
\* phrase triggers) and capture by capture within a class; the full phrases
\* have the numeric, alphanumeric and hyphenated captures, the other two
\* classes the numeric and the alphanumeric capture only; the code returned
\* for a searched body is that of the first matching pattern in this order
C11_ClassMajorOrder ==
  /\ \A j, k \in 1..Len(context_patterns) :
       j < k => ClassMajorBefore(context_patterns[j], context_patterns[k])
  /\ {<<TriggerClass(context_patterns[i]), CaptureKind(context_patterns[i])>> :
        i \in 1..Len(context_patterns)}
       = {<<1, 1>>, <<1, 2>>, <<1, 3>>, <<2, 1>>, <<2, 2>>, <<3, 1>>, <<3, 2>>}
  /\ CodeIsFirstByClass(_clean_html(body_html),
                        MatchingPatterns(_clean_html(body_html)))

\* patterns of two classes match s and capture different values
TwoClassesDiffer(s) ==
  \E j, k \in MatchingPatterns(s) :
     /\ TriggerClass(context_patterns[j]) < TriggerClass(context_patterns[k])
     /\ SearchGroup1(context_patterns[j], s) = result.confirmation_code
     /\ SearchGroup1(context_patterns[k], s) # result.confirmation_code

\* the capture of the earlier class was returned
C11_Witness ==
  /\ pc = "returned"
  /\ result.confirmation_code.some
  /\ TwoClassesDiffer(_clean_html(body_html))

--------------------------------------------------------------------------
(* What is claimed of the fallback stage *)

\* the fallback stage on the normalized HTML s returns the first occurrence
\* of the code pattern, run being that occurrence
FallbackReturns(s, run) ==
  (s # <<>> /\ ~FirstContextMatch(s).some /\ run.some) =>
    /\ pc = "returned"
    /\ result.confirmation_code = run

FirstRunReturned(s) == FallbackReturns(s, FirstOccurrence(code_pattern, s))

\* C12: when no context pattern matches the normalized HTML and it holds a
\* standalone run of 4 to 8 digits, the fallback stage returns the first
\* such run as the code
C12_FallbackReturnsFirstRun ==
  CodeExtracted => FirstRunReturned(_clean_html(body_html))

--------------------------------------------------------------------------
(* What is claimed of the link extractor *)

LinkExtracted == pc \in {"extract_code", "returned", "raised"}

\* the offsets of s at which a qualifying link opens
QualifyingAt(s) == {i \in 0..Len(s) : LinkEnd(s, i) >= 0}

\* the earliest qualifying link of s, Q being the offsets of all of them
EarliestLink(s, Q) == LinkAt(s, Min(Q), LinkEnd(s, Min(Q)))

\* exactly one GET was issued, for the earliest qualifying link of s
FollowedEarliest(s, Q) ==
  /\ requests.follow = 1
  /\ follow_get.url = EarliestLink(s, Q)
  /\ result.confirmation_link.some

\* H and T are the offsets of the qualifying links of bodyHtml and bodyText
LinkSourceOrder(H, T) ==
  /\ H # {} => FollowedEarliest(body_html, H)
  /\ (H = {} /\ T # {}) => FollowedEarliest(body_text, T)
  /\ (H = {} /\ T = {}) =>
       /\ result.confirmation_link = NoneVal
       /\ requests.follow = 0
       /\ follow_get = NoFollow

\* C13: the link extractor follows the earliest qualifying link of bodyHtml
\* and then never looks at bodyText; it scans bodyText only when bodyHtml
\* holds no qualifying link; with no qualifying link in either it returns
\* None without issuing a redirect-follow request
C13_HtmlLinkBeforeTextLink ==
  /\ LinkExtracted =>
       LinkSourceOrder(QualifyingAt(body_html), QualifyingAt(body_text))
  /\ ~LinkExtracted => (requests.follow = 0 /\ follow_get = NoFollow)

\* bodyHtml holds two different qualifying links and bodyText another one
C13_Witness ==
  /\ LinkExtracted
  /\ Cardinality({LinkAt(body_html, i, LinkEnd(body_html, i)) :
                    i \in QualifyingAt(body_html)}) = 2
  /\ QualifyingAt(body_text) # {}
  /\ follow_get.url # FirstLink(body_text)
  /\ follow_get.url.some

--------------------------------------------------------------------------
(* What is claimed of a failed redirect-follow request *)

RunEnded == pc \in {"returned", "raised"}

\* the URL the GET of _follow_redirects ends at
FinalUrl ==
  IF follow_get.how = "redirected" THEN Some(RedirectTarget)
  ELSE follow_get.url

\* C14: when the redirect-follow GET raises, the link extractor returns the
\* original URL and the run is not failed by it: it returns with that URL
\* as confirmation_link and status "success"; when the GET succeeds the
\* link is the final post-redirect URL
C14_FollowFailureKeepsOriginalUrl ==
  /\ (LinkExtracted /\ follow_get.how = "exception") =>
       result.confirmation_link = follow_get.url
  /\ (RunEnded /\ follow_get.how = "exception") =>
       /\ pc = "returned"
       /\ result.status = "success"
  /\ (LinkExtracted /\ follow_get.how \in {"same", "redirected"}) =>
       result.confirmation_link = FinalUrl

--------------------------------------------------------------------------
(* What is claimed of the normalizer *)

\* normalizing y again changes nothing
Idempotent(y) == _clean_html(y) = y

\* C15 as stated: the normalizer is idempotent for every input, outputs
\* that hold decoded '<', '>' and '&' included
C15_Idempotent ==
  CodeExtracted => Idempotent(_clean_html(body_html))

\* y holds no markup: no '<', no '&' and no style attribute
PlainText(y) ==
  /\ IndexOf(y, <<"<">>, 0) < 0
  /\ IndexOf(y, <<"&">>, 0) < 0
  /\ IndexOf(y, StyleAttr, 0) < 0

IdempotentOnPlainText(y) == PlainText(y) => Idempotent(y)

\* C15 amended: normalizing the output of the normalizer changes nothing
\* when that output holds no '<', no '&' and no style attribute
C15_IdempotentOnPlainText ==
  CodeExtracted => IdempotentOnPlainText(_clean_html(body_html))

\* the normalizer changed the body into plain text that is not empty
NormalizedToPlainText(y) ==
  /\ y # <<>>
  /\ y # body_html
  /\ PlainText(y)
  /\ IndexOf(body_html, <<"<">>, 0) >= 0

C15_Witness ==
  CodeExtracted /\ NormalizedToPlainText(_clean_html(body_html))

--------------------------------------------------------------------------
(* What is claimed of <style> blocks *)

\* s in lower case
Lower(s) == [i \in 1..Len(s) |-> Fold(s[i])]

\* the text between the '>' that ends the opening tag at offset gt and the
\* closing tag at offset close; empty when there is no such block
InnerText(s, gt, close) ==
  IF gt < 0 \/ close < 0 THEN <<>> ELSE SubSeq(s, gt + 1, close)

\* the inside of the first <style> block of s, low being s in lower case
\* and open the offset of its opening tag, whatever the letter case
StyleInnerAt(s, low, open) ==
  InnerText(s, EndOf(s, <<">">>, open),
            IndexOf(low, StyleClose, EndOf(s, <<">">>, open)))

StyleInner(s) == StyleInnerAt(s, Lower(s), IndexOf(Lower(s), StyleOpen, 0))

\* the CSS tokens of t: its maximal runs of two or more word characters
CssTokens(t) ==
  {SubSeq(t, i + 1, i + RunLen(t, i, WordChars)) :
     i \in {j \in 0..(Len(t) - 1) :
              /\ RunLenBefore(t, j, WordChars) = 0
              /\ RunLen(t, j, WordChars) >= 2}}

NoTokenIn(tokens, y) == \A tok \in tokens : IndexOf(y, tok, 0) < 0

\* C16: for every body that holds a <style>...</style> block, whatever the
\* letter case of the tag name and whether or not the block spans several
\* lines, no CSS token from inside the block is in the normalized output
C16_NoCssTokenSurvives ==
  CodeExtracted =>
    NoTokenIn(CssTokens(StyleInner(body_html)), _clean_html(body_html))

--------------------------------------------------------------------------
(* What is claimed of CSS measurements *)

CssKeys ==
  {Lookbehind(default_code_pattern)[a] :
     a \in 1..Len(Lookbehind(default_code_pattern))}

\* a CSS key, a colon and any spaces end at offset i of s, colon being the
\* offset just after the colon
KeyedAt(s, colon) ==
  /\ colon >= 1
  /\ s[colon] = ":"
  /\ \E key \in CssKeys :
       /\ colon - 1 >= Len(key)
       /\ OccursAt(s, key, colon - 1 - Len(key))

\* the standalone runs of 4 to 8 digits of s that are the number of a
\* CSS measurement keyed by margin, padding, width or height
CssRuns(s) ==
  {SubSeq(s, i + 1, i + CaptureLen(s, i, NumericCapture)) :
     i \in {j \in 0..Len(s) :
              /\ CaptureLen(s, j, NumericCapture) > 0
              /\ KeyedAt(s, j - RunLenBefore(s, j, SpaceChars))}}

\* the code is not a CSS run of s that only the fallback can have found
NoCssRunFrom(s) ==
  (result.confirmation_code.some /\ ~FirstContextMatch(s).some) =>
    result.confirmation_code.val \notin CssRuns(s)

\* the body "margin: 1234px"
MarginExample == Strip(FragCssMeasure)

\* C17: with the default code pattern the fallback stage never returns a
\* digit run that belongs to a CSS measurement keyed by margin, padding,
\* width or height; for the body "margin: 1234px" the code is not "1234"
C17_FallbackNeverReturnsCssRun ==
  /\ (CodeExtracted /\ code_pattern = default_code_pattern) =>
       /\ NoCssRunFrom(_clean_html(body_html))
       /\ NoCssRunFrom(body_text)
  /\ (CodeExtracted /\ _clean_html(body_html) = MarginExample) =>
       result.confirmation_code # Some(<<"1", "2", "3", "4">>)

\* s holds "margin: 1234px" and also a CSS number that stands alone, and
\* no context pattern matches it
CssRunForFallback(s) ==
  /\ IndexOf(s, MarginExample, 0) >= 0
  /\ CssRuns(s) # {}
  /\ ~FirstContextMatch(s).some

C17_Witness ==
  /\ CodeExtracted
  /\ code_pattern = default_code_pattern
  /\ body_text = <<>>
  /\ CssRunForFallback(_clean_html(body_html))

--------------------------------------------------------------------------
(* What is claimed of the order of the stages *)

StageOrder ==
  <<"get_temp_mail", "poll_for_messages", "get_message_details",
    "extract_confirmation_link", "extract_confirmation_code">>

\* the stages entered so far are the first ones of StageOrder, each once
StagesForward ==
  /\ Len(stages) <= Len(StageOrder)
  /\ stages = SubSeq(StageOrder, 1, Len(stages))

\* a stage has been entered only after the one before it succeeded
PreviousSucceeded ==
  /\ Len(stages) >= 2 => (mail_info # NoMailInfo /\ requests.post >= 1)
  /\ Len(stages) >= 3 => (Truthy(message_id) /\ requests.list >= 1)
  /\ Len(stages) >= 4 =>
       (message_details.some /\ TruthyJson(message_details.json))
  /\ Len(stages) >= 5 => pc \in {"returned", "raised"}

\* requests of a kind are issued in the stage of that kind only
RequestsInStage ==
  /\ requests.post > 0 => Len(stages) >= 1
  /\ requests.list > 0 => Len(stages) >= 2
  /\ requests.detail > 0 => Len(stages) >= 3
  /\ requests.follow > 0 => Len(stages) >= 4

\* message details are requested for the identifier the poller returned
\* and for no other; at most one link is followed
OneMessageOneLink ==
  /\ detail_ids \subseteq (IF message_id.some THEN {message_id.val} ELSE {})
  /\ requests.detail > 0 => detail_ids = {message_id.val}
  /\ requests.follow <= 1
  /\ requests.follow = 1 <=> follow_get # NoFollow

\* a step issues requests for the stage entered last and for no other, and
\* never changes what an earlier stage produced
StageStep ==
  /\ requests'.post # requests.post => stages = SubSeq(StageOrder, 1, 1)
  /\ requests'.list # requests.list => stages = SubSeq(StageOrder, 1, 2)
  /\ requests'.detail # requests.detail => stages = SubSeq(StageOrder, 1, 3)
  /\ requests'.follow # requests.follow => stages' = SubSeq(StageOrder, 1, 4)
  /\ Len(stages) >= 2 => mail_info' = mail_info
  /\ Len(stages) >= 3 => message_id' = message_id
  /\ Len(stages) >= 4 => message_details' = message_details
  /\ stages' # stages => \E stage \in DOMAIN StageOrder :
                           stages' = Append(stages, StageOrder[stage])

\* C18: the stages of a run occur strictly forward and each at most once:
\* the provisioning POST, the polling, one fetch of message details for
\* the identifier the poller returned, link extraction with at most one
\* redirect-follow GET, then code extraction; no stage starts before the
\* one before it succeeded, none is re-entered, no second message is fetched
C18_StagesStrictlyForward ==
  /\ [](StagesForward /\ PreviousSucceeded /\ RequestsInStage
          /\ OneMessageOneLink)
  /\ [][StageStep]_vars

\* a run that went through every stage, with a retried detail request, a
\* second list query and a followed link
C18_Witness ==
  /\ pc = "returned"
  /\ stages = StageOrder
  /\ requests.detail >= 2
  /\ requests.list >= 2
  /\ requests.follow = 1
  /\ detail_ids = {Id2}
  /\ result.confirmation_code.some

--------------------------------------------------------------------------
(* What is claimed of termination and of the request budgets *)

\* no more requests of any kind than the retry and polling budgets allow
WithinBudget ==
  /\ requests.post <= max_retries
  /\ requests.list <= max_retries * max_attempts
  /\ requests.detail <= max_retries
  /\ requests.follow <= 1
  /\ tries <= max_retries
  /\ list_queries <= max_attempts

\* steps the active _make_request call can still take
CallLeft ==
  CASE mr = "request" -> 2 * (max_retries - attempt)
    [] mr = "sleep" -> 2 * (max_retries - attempt) - 1
    [] OTHER -> 0

\* steps of a whole call of _make_request and of taking what it returned
WholeCall == 2 * max_retries + 1

\* steps left once a message identifier is there: the detail request and
\* the two extractors
DetailLeft == WholeCall + 2

\* steps left when poll_for_messages sleeps in pass p of its loop
PollLeft(p) == DetailLeft + (max_attempts - p) * (WholeCall + 1)

\* a bound on the steps run() can still take
StepsLeft ==
  CASE pc = "start" -> 2 * WholeCall + PollLeft(0) + 1
    [] pc = "get_temp_mail" -> CallLeft + 1 + WholeCall + PollLeft(0)
    [] pc = "poll_for_messages" -> CallLeft + 1 + PollLeft(poll_attempt)
    [] pc = "poll_sleep" -> PollLeft(poll_attempt)
    [] pc = "get_message_details" -> CallLeft + 3
    [] pc = "extract_link" -> 2
    [] pc = "extract_code" -> 1
    [] OTHER -> 0

\* the step a run() that has not ended takes next is at hand: a request
\* that returns or times out, a sleep that ends, or a step of run() itself
StepAtHand ==
  \/ pc = "start"
  \/ pc \in {"get_temp_mail", "poll_for_messages", "get_message_details"}
       /\ mr \in {"request", "sleep", "done"}
  \/ pc \in {"poll_sleep", "extract_link", "extract_code"}

\* C19: every HTTP call returning or timing out, run() always terminates:
\* until it has ended a step is at hand, and every step leaves fewer steps
\* to take; it issues at most 3 provisioning requests, 3 * max_attempts
\* list requests, 3 message-detail requests and 1 redirect-follow request
C19_TerminatesWithinBudget ==
  /\ [](WithinBudget /\ StepsLeft >= 0)
  /\ [](~RunEnded => (StepAtHand /\ StepsLeft > 0))
  /\ [][StepsLeft' < StepsLeft]_vars

\* a run that ended with the provisioning and the polling budgets used up
C19_Witness ==
  /\ pc = "returned"
  /\ max_attempts = MaxAttempts
  /\ requests.post = max_retries
  /\ requests.list = max_retries * max_attempts

====
